---- MODULE Spec2Model ----
(***************************************************************************)
(* Session-scoped RAG orchestration of rag_private_document_chatbot:       *)
(* the upload handler, the Celery ingestion task, RAGService.process_file, *)
(* RAGService.get_answer and RAGService.clear_session, over the three      *)
(* stores they share: the upload folder, the Chroma persist directories    *)
(* and the Redis chat histories.                                           *)
(*                                                                         *)
(* A string is a sequence of symbols.  "/", "." and "_" are the characters *)
(* the path-building code treats specially; every other symbol stands for  *)
(* a run of ordinary characters.                                           *)
(***************************************************************************)
EXTENDS Naturals, Sequences, FiniteSets, TLC

VARIABLES files, dirs, index, history, jobs, chats, clears, uploads, reports

vars == <<files, dirs, index, history, jobs, chats, clears, uploads, reports>>

-----------------------------------------------------------------------------
(* Bounds of the model *)

MaxUploads == 2
MaxSessionUploads == 1
MaxChats == 3
MaxSessionChats == 2
PromptTurnLimit == 1
MaxClears == 1
MaxChunks == 1
NumWorkers == 2

-----------------------------------------------------------------------------
(* Configuration (config.py) *)

UPLOAD_FOLDER == <<"uploads">>
CHROMA_PERSIST_DIRECTORY == <<"chroma_db">>

(* Client-supplied values.  The handlers accept any non-empty string as a   *)
(* session id; "a_b" and "." are such strings.                              *)
SessionIds == { <<"a">>, <<"a", "_", "b">>, <<".">> }
Filenames == { <<"c">>, <<"b", "_", "c">> }

(* Any string a client may send: session ids and filenames that name a      *)
(* parent directory or an absolute path.                                    *)
ClientSessionIds == SessionIds \cup { <<".", ".", "/", "a">>, <<"/", "a">> }
ClientFilenames == Filenames \cup { <<".", ".", "/", "c">>, <<"/", "c">> }

(* A document is identified by the number of chunks the splitter yields for *)
(* it; 0 is a document without extractable text.                            *)
Docs == 0..MaxChunks

-----------------------------------------------------------------------------
(* Paths *)

\* os.path.join(base, s): an absolute second argument discards the first.
PathJoin(base, s) ==
    IF s # <<>> /\ s[1] = "/" THEN s ELSE base \o <<"/">> \o s

\* The components of a path string, split at "/".
RECURSIVE SplitPath(_, _, _)
SplitPath(s, cur, acc) ==
    IF s = <<>> THEN Append(acc, cur)
    ELSE IF Head(s) = "/" THEN SplitPath(Tail(s), <<>>, Append(acc, cur))
    ELSE SplitPath(Tail(s), Append(cur, Head(s)), acc)

\* The directory entry a path names, as the kernel resolves it: empty
\* components and "." are skipped, ".." steps to the parent.
RECURSIVE ResolveComps(_, _)
ResolveComps(comps, acc) ==
    IF comps = <<>> THEN acc
    ELSE LET c == Head(comps) IN
         IF c = <<>> \/ c = <<".">> THEN ResolveComps(Tail(comps), acc)
         ELSE IF c = <<".", ".">>
              THEN ResolveComps(Tail(comps),
                                IF acc = <<>> THEN acc
                                ELSE SubSeq(acc, 1, Len(acc) - 1))
         ELSE ResolveComps(Tail(comps), Append(acc, c))

Resolve(p) == ResolveComps(SplitPath(p, <<>>, <<>>), <<>>)

\* The last component of a path string as written.
LastComp(p) == LET cs == SplitPath(p, <<>>, <<>>) IN cs[Len(cs)]

IsPrefix(p, q) == Len(p) <= Len(q) /\ SubSeq(q, 1, Len(p)) = p

\* os.makedirs: the directory and every missing ancestor.
MakeDirs(d) == { SubSeq(d, 1, n) : n \in 1..Len(d) }

\* werkzeug secure_filename on symbols: separators become "_" and leading
\* and trailing "." and "_" are stripped.
RECURSIVE StripLead(_)
StripLead(s) ==
    IF s # <<>> /\ Head(s) \in {".", "_"} THEN StripLead(Tail(s)) ELSE s

RECURSIVE StripTrail(_)
StripTrail(s) ==
    IF s # <<>> /\ s[Len(s)] \in {".", "_"}
    THEN StripTrail(SubSeq(s, 1, Len(s) - 1)) ELSE s

secure_filename(f) ==
    StripTrail(StripLead([i \in 1..Len(f) |-> IF f[i] = "/" THEN "_" ELSE f[i]]))

\* app.py upload_file: where the upload is saved.
UploadPathString(sid, fname) ==
    PathJoin(UPLOAD_FOLDER, sid \o <<"_">> \o secure_filename(fname))

UploadPath(sid, fname) == Resolve(UploadPathString(sid, fname))

\* rag.py: the session's persist directory.
PersistDirString(sid) == PathJoin(CHROMA_PERSIST_DIRECTORY, sid)

PersistDir(sid) == Resolve(PersistDirString(sid))

\* os.path.exists(persist_directory)
hasDocument(sid) == PersistDir(sid) \in dirs

-----------------------------------------------------------------------------
Init ==
    /\ files = <<>>
    /\ dirs = {}
    /\ index = <<>>
    /\ history = [s \in SessionIds |-> <<>>]
    /\ jobs = <<>>
    /\ chats = <<>>
    /\ clears = <<>>
    /\ uploads = <<>>
    /\ reports = <<>>

-----------------------------------------------------------------------------
(* Upload handler (app.py upload_file) *)

\* A job as Celery holds it: what delay() was given, where the worker is in
\* process_file_task, and the state and result the result backend reports.
\* loaded and doc are what loader.load() and the splitter gave the worker;
\* up is the upload request that enqueued the job, raised the exception that
\* left the try block.
NewJob(sid, path, up) ==
    [sid |-> sid, path |-> path, up |-> up, pc |-> "queued", loaded |-> FALSE,
     doc |-> 0, state |-> "PENDING", err |-> "none", raised |-> "none"]

\* file.save(filepath): the upload's content replaces whatever the path held.
SaveFile(fs, path, content) ==
    [p \in DOMAIN fs \cup {path} |-> IF p = path THEN content ELSE fs[p]]

\* os.remove(filepath)
RemoveFile(fs, path) == [p \in DOMAIN fs \ {path} |-> fs[p]]

\* What an upload request carries: whether it has a file part, the session_id
\* form field and the file's name (<<>> when absent or empty).
NoSession == << >>

NoFilename == << >>

\* The handler's checks before it touches anything: the error it answers
\* with, "none" when the request passes.
UploadValidation(hasFile, sid, fname) ==
    IF ~hasFile THEN "No file part"
    ELSE IF sid = NoSession THEN "Session ID missing"
    ELSE IF fname = NoFilename THEN "No selected file"
    ELSE "none"

\* The response of an upload request, with the request it answers.  task is
\* the task id of the 202 response (the job's position in the queue), 0 in
\* every other response; saved tells whether file.save stored the file.
UploadResponse(hasFile, sid, fname, code, msg, task, saved) ==
    [hasFile |-> hasFile, sid |-> sid, fname |-> fname, code |-> code,
     msg |-> msg, task |-> task, saved |-> saved]

\* An upload handler that loads the document itself before it answers.
UploadLoadsInline(sid, fname, doc) ==
    /\ Len(uploads) < MaxUploads
    /\ LET up == Len(uploads) + 1
           path == UploadPath(sid, fname)
           job == [NewJob(sid, path, up) EXCEPT !.pc = "chroma",
                                                !.loaded = TRUE, !.doc = doc]
       IN /\ files' = SaveFile(files, path, [doc |-> doc, up |-> up, sid |-> sid])
          /\ jobs' = Append(jobs, job)
          /\ uploads' = Append(uploads,
                 UploadResponse(TRUE, sid, fname, 202, "File processing started",
                                Len(jobs) + 1, TRUE))
    /\ UNCHANGED <<dirs, index, history, chats, clears, reports>>

\* An accepted upload: the file is saved under "<session_id>_<filename>" in
\* the upload folder, one job is enqueued for (session_id, filepath) and the
\* handler answers 202 with the task id.
Upload(sid, fname, doc) ==
    /\ Len(uploads) < MaxUploads
    /\ UploadValidation(TRUE, sid, fname) = "none"
    /\ LET up == Len(uploads) + 1
           path == UploadPath(sid, fname)
       IN /\ files' = SaveFile(files, path, [doc |-> doc, up |-> up, sid |-> sid])
          /\ jobs' = Append(jobs, NewJob(sid, path, up))
          /\ uploads' = Append(uploads,
                 UploadResponse(TRUE, sid, fname, 202, "File processing started",
                                Len(jobs) + 1, TRUE))
    /\ UNCHANGED <<dirs, index, history, chats, clears, reports>>

\* An upload handler that asks for the session id before the file part.
UploadRejectSessionFirst(hasFile, sid, fname) ==
    /\ Len(uploads) < MaxUploads
    /\ UploadValidation(hasFile, sid, fname) # "none"
    /\ uploads' = Append(uploads,
           UploadResponse(hasFile, sid, fname, 400,
                          IF sid = NoSession THEN "Session ID missing"
                          ELSE UploadValidation(hasFile, sid, fname), 0, FALSE))
    /\ UNCHANGED <<files, dirs, index, history, jobs, chats, clears, reports>>

\* A rejected upload: the first failing check answers 400 and the handler
\* returns before it saves or enqueues anything.
UploadReject(hasFile, sid, fname) ==
    /\ Len(uploads) < MaxUploads
    /\ UploadValidation(hasFile, sid, fname) # "none"
    /\ uploads' = Append(uploads,
           UploadResponse(hasFile, sid, fname, 400,
                          UploadValidation(hasFile, sid, fname), 0, FALSE))
    /\ UNCHANGED <<files, dirs, index, history, jobs, chats, clears, reports>>

\* file.save raises: nothing is saved, the except clause answers 500.
UploadSaveFails(sid, fname) ==
    /\ Len(uploads) < MaxUploads
    /\ UploadValidation(TRUE, sid, fname) = "none"
    /\ uploads' = Append(uploads,
           UploadResponse(TRUE, sid, fname, 500, "Failed to start processing",
                          0, FALSE))
    /\ UNCHANGED <<files, dirs, index, history, jobs, chats, clears, reports>>

\* delay() raises after the file was saved: no job is enqueued, the except
\* clause answers 500 and the saved file stays.
UploadEnqueueFails(sid, fname, doc) ==
    /\ Len(uploads) < MaxUploads
    /\ UploadValidation(TRUE, sid, fname) = "none"
    /\ LET up == Len(uploads) + 1
           path == UploadPath(sid, fname)
       IN /\ files' = SaveFile(files, path, [doc |-> doc, up |-> up, sid |-> sid])
          /\ uploads' = Append(uploads,
                 UploadResponse(TRUE, sid, fname, 500, "Failed to start processing",
                                0, TRUE))
    /\ UNCHANGED <<dirs, index, history, jobs, chats, clears, reports>>

-----------------------------------------------------------------------------
(* Ingestion task (tasks.py process_file_task, rag.py process_file) *)

Running(j) == jobs[j].pc \notin {"queued", "done", "lost"}

Terminal(j) == jobs[j].state \in {"SUCCESS", "FAILURE"}

\* The task returned normally: Celery stores SUCCESS and the result.
Succeed(j) == [jobs EXCEPT ![j].pc = "done", ![j].state = "SUCCESS"]

\* The task raised: Celery stores FAILURE and the exception.
Fail(j, e) == [jobs EXCEPT ![j].pc = "done", ![j].state = "FAILURE", ![j].err = e]

\* The worker executing the task stops part-way. The task was acknowledged
\* when the worker received it (acks_late is not set), so the broker does not
\* deliver it again and no time limit is configured. When the whole worker
\* stops nothing is stored and the state stays PENDING; when only the pool
\* process dies the worker stores FAILURE with WorkerLostError. The except
\* clause of the task does not run in either case.
WorkerCrash(j) ==
    /\ Running(j)
    /\ \E whole \in BOOLEAN :
          jobs' = IF whole THEN [jobs EXCEPT ![j].pc = "lost"]
                           ELSE Fail(j, "WorkerLostError")
    /\ UNCHANGED <<files, dirs, index, history, chats, clears, uploads, reports>>

\* An exception inside the try block: control moves to the except clause.
Raise(j, e) ==
    [jobs EXCEPT ![j].pc = "except", ![j].err = e, ![j].raised = e]

\* The chunks the splitter yields for a document, tagged with the session
\* that ingested them.
ChunksOf(doc, sid) == [n \in 1..doc |-> [doc |-> doc, n |-> n, sid |-> sid]]

\* A process_file without the check for an empty list of chunks.
WorkerLoadAllowsEmpty(j) ==
    /\ jobs[j].pc = "queued"
    /\ Cardinality({k \in DOMAIN jobs : Running(k)}) < NumWorkers
    /\ jobs' = IF jobs[j].path \notin DOMAIN files
               THEN Raise(j, "LoadError")
               ELSE [jobs EXCEPT ![j].pc = "chroma", ![j].loaded = TRUE,
                                 ![j].doc = files[jobs[j].path].doc]
    /\ UNCHANGED <<files, dirs, index, history, chats, clears, uploads, reports>>

\* A worker takes the job; process_file loads the PDF and splits it.  A
\* missing file makes the loader raise; zero chunks raise ValueError.
WorkerLoad(j) ==
    /\ jobs[j].pc = "queued"
    /\ Cardinality({k \in DOMAIN jobs : Running(k)}) < NumWorkers
    /\ jobs' = IF jobs[j].path \notin DOMAIN files
               THEN Raise(j, "LoadError")
               ELSE IF files[jobs[j].path].doc = 0
               THEN [Raise(j, "EmptyDocument") EXCEPT ![j].loaded = TRUE]
               ELSE [jobs EXCEPT ![j].pc = "chroma", ![j].loaded = TRUE,
                                 ![j].doc = files[jobs[j].path].doc]
    /\ UNCHANGED <<files, dirs, index, history, chats, clears, uploads, reports>>

\* Chroma(persist_directory=...): the client creates the directory and the
\* collection if they are missing and opens them otherwise.
OpenStore(d) ==
    /\ dirs' = dirs \cup MakeDirs(d)
    /\ index' = IF d \in DOMAIN index THEN index
                ELSE [x \in DOMAIN index \cup {d} |->
                        IF x = d THEN <<>> ELSE index[x]]

\* Chroma.from_documents, first half: the store is opened.
WorkerOpenStore(j) ==
    /\ jobs[j].pc = "chroma"
    /\ OpenStore(PersistDir(jobs[j].sid))
    /\ jobs' = [jobs EXCEPT ![j].pc = "embed"]
    /\ UNCHANGED <<files, history, chats, clears, uploads, reports>>

\* add_texts: the chunks are added under fresh ids.
AddTexts(store, chunks) == store \o chunks

\* Chroma.from_documents, second half: the chunks are embedded and added.
\* When the directory was removed under the open client the write is lost.
WorkerEmbedAdd(j) ==
    /\ jobs[j].pc = "embed"
    /\ LET d == PersistDir(jobs[j].sid) IN
       \/ /\ d \in DOMAIN index
          /\ index' = [index EXCEPT
                         ![d] = AddTexts(@, ChunksOf(jobs[j].doc, jobs[j].sid))]
          /\ jobs' = [jobs EXCEPT ![j].pc = "cleanup"]
       \/ /\ d \notin DOMAIN index
          /\ index' = index
          /\ jobs' = [jobs EXCEPT ![j].pc = "cleanup"]
       \/ /\ index' = index
          /\ jobs' = Raise(j, "EmbeddingFailure")
    /\ UNCHANGED <<files, dirs, history, chats, clears, uploads, reports>>

\* try block: if os.path.exists(filepath)
WorkerCleanupCheck(j) ==
    /\ jobs[j].pc = "cleanup"
    /\ jobs' = IF jobs[j].path \in DOMAIN files
               THEN [jobs EXCEPT ![j].pc = "remove"]
               ELSE Succeed(j)
    /\ UNCHANGED <<files, dirs, index, history, chats, clears, uploads, reports>>

\* try block: os.remove(filepath); return.  The file may have gone since
\* the check: os.remove raises inside the try block.
WorkerRemove(j) ==
    /\ jobs[j].pc = "remove"
    /\ IF jobs[j].path \in DOMAIN files
       THEN /\ files' = RemoveFile(files, jobs[j].path)
            /\ jobs' = Succeed(j)
       ELSE /\ files' = files
            /\ jobs' = Raise(j, "FileNotFoundError")
    /\ UNCHANGED <<dirs, index, history, chats, clears, uploads, reports>>

\* A task whose except clause re-raises without the cleanup.
WorkerExceptNoCleanup(j) ==
    /\ jobs[j].pc = "except"
    /\ jobs' = Fail(j, jobs[j].err)
    /\ UNCHANGED <<files, dirs, index, history, chats, clears, uploads, reports>>

\* except clause: if os.path.exists(filepath), else raise e
WorkerExceptCheck(j) ==
    /\ jobs[j].pc = "except"
    /\ jobs' = IF jobs[j].path \in DOMAIN files
               THEN [jobs EXCEPT ![j].pc = "except_remove"]
               ELSE Fail(j, jobs[j].err)
    /\ UNCHANGED <<files, dirs, index, history, chats, clears, uploads, reports>>

\* except clause: os.remove(filepath); raise e.  An os.remove that raises
\* here replaces e.
WorkerExceptRemove(j) ==
    /\ jobs[j].pc = "except_remove"
    /\ IF jobs[j].path \in DOMAIN files
       THEN /\ files' = RemoveFile(files, jobs[j].path)
            /\ jobs' = Fail(j, jobs[j].err)
       ELSE /\ files' = files
            /\ jobs' = Fail(j, "FileNotFoundError")
    /\ UNCHANGED <<dirs, index, history, chats, clears, uploads, reports>>

-----------------------------------------------------------------------------
(* Status query (app.py task_status) and the result backend (celery_app.py) *)

PROCESSING == "Processing..."

COMPLETED == "Task completed!"

\* A task_status handler without the PENDING branch.
StatusResponseNoPending(job) ==
    IF job.state # "FAILURE"
    THEN [state |-> job.state, status |-> COMPLETED, result |-> job.sid]
    ELSE [state |-> job.state, status |-> job.err, result |-> NoSession]

\* The body task_status answers with for what AsyncResult reports of the
\* job: the task's return value carries the session id, task.info of a
\* failed task is the exception.
StatusResponse(job) ==
    IF job.state = "PENDING"
    THEN [state |-> job.state, status |-> PROCESSING, result |-> NoSession]
    ELSE IF job.state # "FAILURE"
    THEN [state |-> job.state, status |-> COMPLETED, result |-> job.sid]
    ELSE [state |-> job.state, status |-> job.err, result |-> NoSession]

\* GET /status/<task_id> for the handle of an enqueued job; reports keeps the
\* last body answered for each handle.
TaskStatus(j) ==
    /\ j \in DOMAIN jobs
    /\ reports' = [t \in DOMAIN reports \cup {j} |->
                     IF t = j THEN StatusResponse(jobs[j]) ELSE reports[t]]
    /\ UNCHANGED <<files, dirs, index, history, jobs, chats, clears, uploads>>

\* result_expires: the backend drops the stored result of a finished task,
\* after which AsyncResult reports the handle as PENDING again.  err and
\* raised stay as the record of what the task did.
ResultExpire(j) ==
    /\ j \in DOMAIN jobs
    /\ Terminal(j)
    /\ jobs' = [jobs EXCEPT ![j].state = "PENDING"]
    /\ UNCHANGED <<files, dirs, index, history, chats, clears, uploads, reports>>

-----------------------------------------------------------------------------
(* Chat request (app.py chat, rag.py get_answer) *)

GUIDANCE == "Please upload a PDF file first."

CHAT_ERROR == "An error occurred processing your request."

\* The text of an ordinary answer, and str() of an empty model response.
ANSWER_TEXT == "answer"

EMPTY_TEXT == ""

\* A chat request and where its handler is.  body and msg say whether the
\* JSON body is non-empty and carries a message; code and result are the
\* HTTP status and the text of the response (code 0: not answered yet);
\* reply is what the model returned, seen the number of history messages
\* read into the prompt, wrote the number of messages recorded.
NewChat(sid, pc, result) ==
    [sid |-> sid, pc |-> pc, result |-> result, llm |-> FALSE, seen |-> 0,
     wrote |-> 0, body |-> TRUE, msg |-> TRUE, code |-> 0, reply |-> "none"]

\* return jsonify({"answer": answer})
Answered(ch, text) == [ch EXCEPT !.code = 200, !.result = text]

\* A handler that hands the failure back as the answer.
ErroredAsAnswer(ch, pc) ==
    [ch EXCEPT !.pc = pc, !.code = 200, !.result = ANSWER_TEXT]

\* except Exception: the handler answers 500 with the fixed error text.
Errored(ch, pc) == [ch EXCEPT !.pc = pc, !.code = 500, !.result = CHAT_ERROR]

\* RedisChatMessageHistory.add_message: one LPUSH per message.
AddMessage(h, sid, m) == [h EXCEPT ![sid] = Append(@, m)]

\* The handler's checks on the JSON body: the error it answers with, "none"
\* when the request passes.
ChatValidation(body, sid, msg) ==
    IF ~body THEN "Invalid JSON"
    ELSE IF ~msg \/ sid = NoSession THEN "Missing message or session_id"
    ELSE "none"

\* The session ids of rejected chat requests.
RejectedSessionIds == { NoSession, <<"a">> }

\* A chat handler that answers a request it should have rejected.
ChatRejectAnswers(body, sid, msg) ==
    /\ Len(chats) < MaxChats
    /\ ~body => (sid = NoSession /\ ~msg)
    /\ ChatValidation(body, sid, msg) # "none"
    /\ chats' = Append(chats,
           [Answered(NewChat(sid, "guidance", GUIDANCE), GUIDANCE)
               EXCEPT !.body = body, !.msg = msg])
    /\ UNCHANGED <<files, dirs, index, history, jobs, clears, uploads, reports>>

\* A rejected chat request: 400 before get_answer is called.  An empty body
\* has neither field.
ChatReject(body, sid, msg) ==
    /\ Len(chats) < MaxChats
    /\ ~body => (sid = NoSession /\ ~msg)
    /\ ChatValidation(body, sid, msg) # "none"
    /\ chats' = Append(chats,
           [NewChat(sid, "rejected", ChatValidation(body, sid, msg))
               EXCEPT !.body = body, !.msg = msg, !.code = 400])
    /\ UNCHANGED <<files, dirs, index, history, jobs, clears, uploads, reports>>

\* get_answer up to the existence check: without the persist directory the
\* guidance message is returned at once.
ChatStart(sid) ==
    /\ Len(chats) < MaxChats
    /\ ChatValidation(TRUE, sid, TRUE) = "none"
    /\ chats' = Append(chats, IF hasDocument(sid)
                              THEN NewChat(sid, "open", "none")
                              ELSE Answered(NewChat(sid, "guidance", GUIDANCE),
                                            GUIDANCE))
    /\ UNCHANGED <<files, dirs, index, history, jobs, clears, uploads, reports>>

\* A get_answer that opens its store with a fresh, empty collection.
ChatOpenStoreResets(c) ==
    /\ chats[c].pc = "open"
    /\ LET d == PersistDir(chats[c].sid) IN
       /\ dirs' = dirs \cup MakeDirs(d)
       /\ index' = [x \in DOMAIN index \cup {d} |->
                      IF x = d THEN << >> ELSE index[x]]
    /\ chats' = [chats EXCEPT ![c].pc = "invoke"]
    /\ UNCHANGED <<files, history, jobs, clears, uploads, reports>>

\* vector_store = Chroma(persist_directory=..., embedding_function=...)
ChatOpenStore(c) ==
    /\ chats[c].pc = "open"
    /\ OpenStore(PersistDir(chats[c].sid))
    /\ chats' = [chats EXCEPT ![c].pc = "invoke"]
    /\ UNCHANGED <<files, history, jobs, clears, uploads, reports>>

\* What the model may return: text, or an empty or refused response.
Replies == {"text", "empty"}

\* A get_answer that records the question before the model has answered.
ChatInvokeRecordsFirst(c) ==
    /\ chats[c].pc = "invoke"
    /\ history' = AddMessage(history, chats[c].sid, [type |-> "human", req |-> c])
    /\ \/ \E r \in Replies :
            chats' = [chats EXCEPT ![c].pc = "save_ai", ![c].llm = TRUE,
                                   ![c].wrote = @ + 1, ![c].reply = r,
                                   ![c].seen = Len(history[chats[c].sid])]
       \/ chats' = [chats EXCEPT ![c] = Errored([@ EXCEPT !.llm = TRUE,
                                                          !.wrote = @ + 1],
                                                "failed")]
    /\ UNCHANGED <<files, dirs, index, jobs, clears, uploads, reports>>

\* qa_chain.invoke up to the model's response: the history is read, the
\* chunks are retrieved and the model is called.  Any of these may raise;
\* the exception leaves get_answer and the handler answers 500.
ChatInvoke(c) ==
    /\ chats[c].pc = "invoke"
    /\ \/ \E r \in Replies :
            chats' = [chats EXCEPT ![c].pc = "save_user", ![c].llm = TRUE,
                                   ![c].reply = r,
                                   ![c].seen = Len(history[chats[c].sid])]
       \/ chats' = [chats EXCEPT ![c] = Errored([@ EXCEPT !.llm = TRUE],
                                                "failed")]
    /\ UNCHANGED <<files, dirs, index, history, jobs, clears, uploads, reports>>

\* qa_chain.invoke when the model never responds: ChatOpenAI is built
\* without a timeout, so the request waits and nothing takes it further.
ChatInvokeHangs(c) ==
    /\ chats[c].pc = "invoke"
    /\ chats' = [chats EXCEPT ![c].pc = "waiting", ![c].llm = TRUE]
    /\ UNCHANGED <<files, dirs, index, history, jobs, clears, uploads, reports>>

\* memory.save_context, first message: the question.  Redis may be
\* unavailable: the exception leaves get_answer.
ChatSaveUser(c) ==
    /\ chats[c].pc = "save_user"
    /\ \/ /\ history' = AddMessage(history, chats[c].sid,
                                   [type |-> "human", req |-> c])
          /\ chats' = [chats EXCEPT ![c].pc = "save_ai", ![c].wrote = @ + 1]
       \/ /\ history' = history
          /\ chats' = [chats EXCEPT ![c] = Errored(@, "save_failed")]
    /\ UNCHANGED <<files, dirs, index, jobs, clears, uploads, reports>>

\* return str(result["answer"])
AnswerText(reply) == IF reply = "empty" THEN EMPTY_TEXT ELSE ANSWER_TEXT

\* memory.save_context, second message: the answer; get_answer returns it
\* and the handler answers 200.
ChatSaveAI(c) ==
    /\ chats[c].pc = "save_ai"
    /\ \/ /\ history' = AddMessage(history, chats[c].sid,
                                   [type |-> "ai", req |-> c])
          /\ chats' = [chats EXCEPT
                         ![c] = Answered([@ EXCEPT !.pc = "done",
                                                   !.wrote = @ + 1],
                                         AnswerText(chats[c].reply))]
       \/ /\ history' = history
          /\ chats' = [chats EXCEPT ![c] = Errored(@, "save_failed")]
    /\ UNCHANGED <<files, dirs, index, jobs, clears, uploads, reports>>

\* The history key expires (ttl=3600 is set with every message).
Expire(sid) ==
    /\ history[sid] # <<>>
    /\ history' = [history EXCEPT ![sid] = <<>>]
    /\ UNCHANGED <<files, dirs, index, jobs, chats, clears, uploads, reports>>

-----------------------------------------------------------------------------
(* clear_session (rag.py) *)

\* shutil.rmtree(p) cannot remove a directory named by "." or "..": the
\* final rmdir fails after the content has been deleted.
RmtreeRaises(p) == LastComp(p) \in { <<".">>, <<".", ".">> }

RmtreeDirs(ds, p) ==
    { d \in ds : ~IsPrefix(Resolve(p), d) \/ (RmtreeRaises(p) /\ d = Resolve(p)) }

RmtreeIndex(ix, p) ==
    [d \in { x \in DOMAIN ix : ~IsPrefix(Resolve(p), x) } |-> ix[d]]

\* if os.path.exists(persist_directory): shutil.rmtree(persist_directory)
\* The record of the call notes in "removed" whether rmtree ran.
ClearRmtree(sid) ==
    /\ Len(clears) < MaxClears
    /\ LET p == PersistDirString(sid) IN
       IF hasDocument(sid)
       THEN /\ dirs' = RmtreeDirs(dirs, p)
            /\ index' = RmtreeIndex(index, p)
            /\ clears' = Append(clears,
                   [sid |-> sid, removed |-> TRUE,
                    pc |-> IF RmtreeRaises(p) THEN "raised" ELSE "history"])
       ELSE /\ UNCHANGED <<dirs, index>>
            /\ clears' = Append(clears,
                   [sid |-> sid, removed |-> FALSE, pc |-> "history"])
    /\ UNCHANGED <<files, history, jobs, chats, uploads, reports>>

\* message_history.clear(); return.  Redis may be unavailable.
ClearHistory(k) ==
    /\ clears[k].pc = "history"
    /\ \/ /\ history' = [history EXCEPT ![clears[k].sid] = <<>>]
          /\ clears' = [clears EXCEPT ![k].pc = "done"]
       \/ /\ history' = history
          /\ clears' = [clears EXCEPT ![k].pc = "raised"]
    /\ UNCHANGED <<files, dirs, index, jobs, chats, uploads, reports>>

-----------------------------------------------------------------------------
(* Specifications *)

\* Uploads and the workers that ingest them.
Ingest ==
    \/ \E sid \in SessionIds, f \in Filenames, d \in Docs : Upload(sid, f, d)
    \/ \E j \in DOMAIN jobs : WorkerLoad(j)
    \/ \E j \in DOMAIN jobs : WorkerOpenStore(j)
    \/ \E j \in DOMAIN jobs : WorkerEmbedAdd(j)
    \/ \E j \in DOMAIN jobs : WorkerCleanupCheck(j)
    \/ \E j \in DOMAIN jobs : WorkerRemove(j)
    \/ \E j \in DOMAIN jobs : WorkerExceptCheck(j)
    \/ \E j \in DOMAIN jobs : WorkerExceptRemove(j)

\* The same with at most MaxSessionUploads uploads.
IngestFew ==
    \/ \E sid \in SessionIds, f \in Filenames, d \in Docs :
          Len(jobs) < MaxSessionUploads /\ Upload(sid, f, d)
    \/ \E j \in DOMAIN jobs : WorkerLoad(j)
    \/ \E j \in DOMAIN jobs : WorkerOpenStore(j)
    \/ \E j \in DOMAIN jobs : WorkerEmbedAdd(j)
    \/ \E j \in DOMAIN jobs : WorkerCleanupCheck(j)
    \/ \E j \in DOMAIN jobs : WorkerRemove(j)
    \/ \E j \in DOMAIN jobs : WorkerExceptCheck(j)
    \/ \E j \in DOMAIN jobs : WorkerExceptRemove(j)

\* Chat requests, served concurrently.
Answer ==
    \/ \E sid \in SessionIds : ChatStart(sid)
    \/ \E c \in DOMAIN chats : ChatOpenStore(c)
    \/ \E c \in DOMAIN chats : ChatInvoke(c)
    \/ \E c \in DOMAIN chats : ChatSaveUser(c)
    \/ \E c \in DOMAIN chats : ChatSaveAI(c)

\* The same with at most MaxSessionChats chat requests.
AnswerFew ==
    \/ \E sid \in SessionIds : Len(chats) < MaxSessionChats /\ ChatStart(sid)
    \/ \E c \in DOMAIN chats : ChatOpenStore(c)
    \/ \E c \in DOMAIN chats : ChatInvoke(c)
    \/ \E c \in DOMAIN chats : ChatSaveUser(c)
    \/ \E c \in DOMAIN chats : ChatSaveAI(c)

\* A client in conversation with an indexed session: up to MaxChats chat
\* requests, each sent after the previous one was answered.
Converse ==
    \/ \E sid \in SessionIds :
          /\ hasDocument(sid)
          /\ \A c \in DOMAIN chats : chats[c].code # 0
          /\ ChatStart(sid)
    \/ \E c \in DOMAIN chats : ChatOpenStore(c)
    \/ \E c \in DOMAIN chats : ChatInvoke(c)
    \/ \E c \in DOMAIN chats : ChatSaveUser(c)
    \/ \E c \in DOMAIN chats : ChatSaveAI(c)

\* The same with at most MaxSessionChats chat requests.
ConverseFew ==
    \/ \E sid \in SessionIds :
          /\ Len(chats) < MaxSessionChats
          /\ hasDocument(sid)
          /\ \A c \in DOMAIN chats : chats[c].code # 0
          /\ ChatStart(sid)
    \/ \E c \in DOMAIN chats : ChatOpenStore(c)
    \/ \E c \in DOMAIN chats : ChatInvoke(c)
    \/ \E c \in DOMAIN chats : ChatSaveUser(c)
    \/ \E c \in DOMAIN chats : ChatSaveAI(c)

\* Session teardown: clear_session and the expiry of the history key.
Teardown ==
    \/ \E sid \in SessionIds : Expire(sid)
    \/ \E sid \in SessionIds : ClearRmtree(sid)
    \/ \E k \in DOMAIN clears : ClearHistory(k)

\* Upload requests that are refused: rejected by a check, or failing to save
\* or to enqueue.
UploadRefused ==
    \/ \E hasFile \in BOOLEAN, sid \in SessionIds \cup {NoSession},
          f \in Filenames \cup {NoFilename} : UploadReject(hasFile, sid, f)
    \/ \E sid \in SessionIds, f \in Filenames : UploadSaveFails(sid, f)
    \/ \E sid \in SessionIds, f \in Filenames, d \in Docs :
          UploadEnqueueFails(sid, f, d)

\* The same among the first MaxSessionUploads upload requests.
UploadRefusedFew ==
    \/ \E hasFile \in BOOLEAN, sid \in SessionIds \cup {NoSession},
          f \in Filenames \cup {NoFilename} :
          Len(uploads) < MaxSessionUploads /\ UploadReject(hasFile, sid, f)
    \/ \E sid \in SessionIds, f \in Filenames :
          Len(uploads) < MaxSessionUploads /\ UploadSaveFails(sid, f)
    \/ \E sid \in SessionIds, f \in Filenames, d \in Docs :
          Len(uploads) < MaxSessionUploads /\ UploadEnqueueFails(sid, f, d)

\* Status queries and the expiry of stored results.
Status ==
    \/ \E j \in DOMAIN jobs : TaskStatus(j)
    \/ \E j \in DOMAIN jobs : ResultExpire(j)

\* Chat requests that are rejected.
ChatRefused ==
    \E body \in BOOLEAN, sid \in RejectedSessionIds, msg \in BOOLEAN :
        Len(chats) < MaxSessionChats /\ ChatReject(body, sid, msg)

Next == Ingest \/ UploadRefused \/ Status \/ Answer \/ ChatRefused \/ Teardown

\* The whole system.
Spec == Init /\ [][Next]_vars

\* Ingestion alone: uploads and workers.
SpecIngest == Init /\ [][Ingest]_vars

\* Ingestion and chat requests.
SpecAnswer == Init /\ [][IngestFew \/ AnswerFew]_vars

\* Ingestion, chat requests and session teardown.
SpecSession == Init /\ [][IngestFew \/ AnswerFew \/ Teardown]_vars

\* The upload handler with every outcome, and the workers.
SpecUpload == Init /\ [][IngestFew \/ UploadRefusedFew]_vars

\* Ingestion and the status query.
SpecStatus == Init /\ [][IngestFew \/ Status]_vars

\* The chat handler with every outcome, after at most MaxSessionUploads
\* uploads.
SpecChat == Init /\ [][IngestFew \/ AnswerFew \/ ChatRefused]_vars

\* Ingestion, a conversation, status queries and the expiry of histories,
\* without any clear_session.
SpecIndex ==
    Init /\ [][ \/ IngestFew
                \/ ConverseFew
                \/ \E j \in DOMAIN jobs : TaskStatus(j)
                \/ \E sid \in SessionIds : Expire(sid) ]_vars

\* Uploads, workers and clear_session.
SpecIngestClear ==
    Init /\ [][ \/ Ingest
                \/ \E sid \in SessionIds : ClearRmtree(sid)
                \/ \E k \in DOMAIN clears : ClearHistory(k) ]_vars

\* Uploads and workers that may stop part-way; workers that are running keep
\* taking queued jobs and keep executing the ones they hold.
SpecCrash ==
    Init /\ [][IngestFew \/ \E j \in DOMAIN jobs : WorkerCrash(j)]_vars
         /\ WF_vars(IngestFew)

\* The same workers when none stops part-way.
SpecNoCrash == Init /\ [][IngestFew]_vars /\ WF_vars(IngestFew)

\* A session that is cleared while work on it is in progress: uploads are
\* made only before clear_session is called, clear_session is called only
\* once every uploaded job has been taken by a worker, and chat requests
\* and workers run on.
SpecCleared ==
    Init /\ [][ \/ \E sid \in SessionIds, f \in Filenames, d \in Docs :
                    /\ Len(jobs) < MaxSessionUploads
                    /\ clears = << >>
                    /\ Upload(sid, f, d)
                \/ \E j \in DOMAIN jobs : WorkerLoad(j)
                \/ \E j \in DOMAIN jobs : WorkerOpenStore(j)
                \/ \E j \in DOMAIN jobs : WorkerEmbedAdd(j)
                \/ \E j \in DOMAIN jobs : WorkerCleanupCheck(j)
                \/ \E j \in DOMAIN jobs : WorkerRemove(j)
                \/ \E j \in DOMAIN jobs : WorkerExceptCheck(j)
                \/ \E j \in DOMAIN jobs : WorkerExceptRemove(j)
                \/ ConverseFew
                \/ \E sid \in SessionIds :
                    /\ \A j \in DOMAIN jobs : jobs[j].pc # "queued"
                    /\ ClearRmtree(sid)
                \/ \E k \in DOMAIN clears : ClearHistory(k) ]_vars

\* One upload with any client-supplied session id and filename, and the
\* workers.
SpecPath ==
    Init /\ [][ \/ \E sid \in ClientSessionIds, f \in ClientFilenames,
                      d \in Docs :
                      Len(jobs) < MaxSessionUploads /\ Upload(sid, f, d)
                \/ \E j \in DOMAIN jobs : WorkerLoad(j)
                \/ \E j \in DOMAIN jobs : WorkerOpenStore(j)
                \/ \E j \in DOMAIN jobs : WorkerEmbedAdd(j)
                \/ \E j \in DOMAIN jobs : WorkerCleanupCheck(j)
                \/ \E j \in DOMAIN jobs : WorkerRemove(j)
                \/ \E j \in DOMAIN jobs : WorkerExceptCheck(j)
                \/ \E j \in DOMAIN jobs : WorkerExceptRemove(j) ]_vars

\* Ingestion and chat requests whose model call may never respond; every
\* worker and every request thread that can take a step eventually does.
SpecTimeout ==
    /\ Init
    /\ [][ IngestFew \/ AnswerFew
             \/ \E c \in DOMAIN chats : ChatInvokeHangs(c) ]_vars
    /\ WF_vars(IngestFew \/ AnswerFew)

\* The same when the model always responds or fails.
SpecResponsive ==
    Init /\ [][IngestFew \/ AnswerFew]_vars /\ WF_vars(IngestFew \/ AnswerFew)

\* Longer conversations: up to MaxChats chat requests, one at a time.
SpecHistory == Init /\ [][IngestFew \/ Converse]_vars

-----------------------------------------------------------------------------
(* Properties *)

NeverSubmitted(sid) == \A j \in DOMAIN jobs : jobs[j].sid # sid

MessagesOf(c) ==
    { i \in DOMAIN history[chats[c].sid] : history[chats[c].sid][i].req = c }

\* C1: a get_answer for a session key for which no ingestion was ever
\* submitted returns the guidance message, calls no language model and
\* writes nothing to the conversation memory.
C1_GuidanceWithoutIngestion ==
    \A c \in DOMAIN chats :
        (chats[c].pc # "rejected" /\ NeverSubmitted(chats[c].sid)) =>
            /\ ~chats[c].llm
            /\ chats[c].wrote = 0
            /\ chats[c].result \in {"none", GUIDANCE}

\* C2: a get_answer whose retrieval or generation call failed has written
\* no message: the conversation memory holds nothing of that request.
C2_FailedAnswerRecordsNothing ==
    \A c \in DOMAIN chats :
        chats[c].pc = "failed" => chats[c].wrote = 0 /\ MessagesOf(c) = {}

\* C2 witness: a request failed in the model call while the history of its
\* session holds the turn of another request.
C2_Witness ==
    \E c \in DOMAIN chats :
        chats[c].pc = "failed" /\ Len(history[chats[c].sid]) >= 2

\* The file the upload of job j saved is still at the path the job was given.
SourceFileExists(j) ==
    jobs[j].path \in DOMAIN files /\ files[jobs[j].path].up = jobs[j].up

\* C3: once an ingestion job is in a terminal state, succeeded or failed,
\* the file uploaded for it no longer exists at the path the job was given.
C3_TerminalJobFileRemoved ==
    \A j \in DOMAIN jobs : Terminal(j) => ~SourceFileExists(j)

\* C3 witness: one job succeeded and another failed.
C3_Witness ==
    \E j, k \in DOMAIN jobs :
        jobs[j].state = "SUCCESS" /\ jobs[k].state = "FAILURE"

\* C4: hasDocument of a session is true only after an ingestion job of that
\* session has reached SUCCESS; it is false while the job is pending or
\* running and stays false when the job fails.
C4_HasDocumentOnlyAfterSuccess ==
    \A s \in SessionIds :
        hasDocument(s) =>
            \E j \in DOMAIN jobs : jobs[j].sid = s /\ jobs[j].state = "SUCCESS"

\* A clear_session call for s starts in this step.
ClearStarts(s) ==
    /\ Len(clears') = Len(clears) + 1
    /\ clears'[Len(clears')].sid = s

\* C5: when clear_session(s) returns, hasDocument(s) is false and the
\* history of s is empty; clear_session on a session that has no index
\* raises no error and changes nothing.
C5_ClearSessionPostcondition ==
    [][ /\ \A k \in DOMAIN clears :
              clears[k].pc = "history" /\ clears'[k].pc = "done" =>
                  ~hasDocument(clears[k].sid)' /\ history'[clears[k].sid] = <<>>
        /\ \A s \in SessionIds :
              ClearStarts(s) /\ NeverSubmitted(s) /\ history[s] = <<>> =>
                  /\ clears'[Len(clears')].pc # "raised"
                  /\ UNCHANGED <<dirs, index, history>> ]_vars

\* C6: a job whose document splits into zero chunks never reaches the
\* index, ends FAILURE with the empty-document error as its detail, and its
\* uploaded file is removed.
C6_EmptyDocumentFails ==
    \A j \in DOMAIN jobs :
        jobs[j].loaded /\ jobs[j].doc = 0 =>
            /\ jobs[j].pc \in {"except", "except_remove", "done"}
            /\ jobs[j].pc = "done" =>
                  /\ jobs[j].state = "FAILURE"
                  /\ jobs[j].err = "EmptyDocument"
                  /\ ~SourceFileExists(j)

\* Every question is immediately followed by the answer of its own request.
WellPaired(h) ==
    /\ Len(h) % 2 = 0
    /\ \A i \in DOMAIN h :
          i % 2 = 1 => /\ h[i].type = "human"
                       /\ h[i + 1].type = "ai"
                       /\ h[i + 1].req = h[i].req

ChatsOf(s) ==
    { c \in DOMAIN chats : chats[c].sid = s /\ chats[c].pc # "rejected" }

\* C7: when N get_answer calls on one session have all succeeded, its
\* history holds exactly N turns, each question immediately followed by its
\* own answer.
C7_ConcurrentTurnsIntact ==
    \A s \in SessionIds :
        (ChatsOf(s) # {} /\ \A c \in ChatsOf(s) : chats[c].pc = "done") =>
            /\ Len(history[s]) = 2 * Cardinality(ChatsOf(s))
            /\ WellPaired(history[s])

\* The session key of the request or job that takes this step.
ActsAs(s) ==
    \/ Len(jobs') > Len(jobs) /\ jobs'[Len(jobs')].sid = s
    \/ \E j \in DOMAIN jobs : jobs'[j] # jobs[j] /\ jobs[j].sid = s
    \/ Len(chats') > Len(chats) /\ chats'[Len(chats')].sid = s
    \/ \E c \in DOMAIN chats : chats'[c] # chats[c] /\ chats[c].sid = s
    \/ Len(clears') > Len(clears) /\ clears'[Len(clears')].sid = s
    \/ \E k \in DOMAIN clears : clears'[k] # clears[k] /\ clears[k].sid = s

\* What belongs to session t: the files its uploads saved, the chunks its
\* ingestions indexed, its history.
FilesOf(fs, t) == { <<p, fs[p]>> : p \in { q \in DOMAIN fs : fs[q].sid = t } }

\* C8: a step taken with session key s leaves the uploaded files, the index
\* and the conversation memory of every other session key untouched, and a
\* job of s loads only a file that an upload of s saved.
C8_SessionsIsolated ==
    [][ \A s \in SessionIds : ActsAs(s) =>
          /\ \A t \in SessionIds \ {s} :
                /\ FilesOf(files', t) = FilesOf(files, t)
                /\ history'[t] = history[t]
                /\ \A d \in DOMAIN index :
                      SelectSeq(index[d], LAMBDA ch : ch.sid = t) # <<>> =>
                          /\ d \in DOMAIN index'
                          /\ SelectSeq(index'[d], LAMBDA ch : ch.sid = t)
                                = SelectSeq(index[d], LAMBDA ch : ch.sid = t)
          /\ \A j \in DOMAIN jobs :
                (jobs[j].sid = s /\ jobs[j].pc = "queued"
                   /\ jobs'[j].pc # "queued" /\ jobs[j].path \in DOMAIN files)
                => files[jobs[j].path].sid = s ]_vars

\* C9: two ingestion jobs of one session never run at the same time.
C9_OneIngestionPerSession ==
    \A j, k \in DOMAIN jobs :
        (j # k /\ jobs[j].sid = jobs[k].sid) => ~(Running(j) /\ Running(k))

\* C10: however often a document is ingested into a session, the session's
\* index holds each of its chunks once.
C10_ReingestionIdempotent ==
    \A d \in DOMAIN index :
        \A i, k \in DOMAIN index[d] :
            (index[d][i].doc = index[d][k].doc /\ index[d][i].n = index[d][k].n)
                => i = k

\* The request of an upload response passes the handler's checks.
ValidUpload(r) == UploadValidation(r.hasFile, r.sid, r.fname) = "none"

\* The jobs an upload request enqueued.
JobsOf(u) == { j \in DOMAIN jobs : jobs[j].up = u }

C12_ReportedTerminalStateStays ==
    [][ \A j \in DOMAIN reports :
          reports[j].state \in {"SUCCESS", "FAILURE"} =>
              reports'[j].state = reports[j].state ]_vars

\* C13: a status query answers "Processing..." for a job that has not
\* finished, "Task completed!" with the job's session id as result only for
\* a job that finished without an exception, and an error detail only for a
\* job that finished with that exception.
C13_StatusMatchesJob ==
    [][ \A j \in DOMAIN reports' :
          (j \notin DOMAIN reports \/ reports'[j] # reports[j]) =>
              LET r == reports'[j] IN
              /\ jobs[j].pc # "done" => r.status = PROCESSING
              /\ r.status = COMPLETED =>
                    /\ jobs[j].pc = "done"
                    /\ jobs[j].err = "none"
                    /\ r.state = "SUCCESS"
                    /\ r.result = jobs[j].sid
              /\ r.status \notin {PROCESSING, COMPLETED} =>
                    /\ jobs[j].pc = "done"
                    /\ jobs[j].err # "none"
                    /\ r.state = "FAILURE"
                    /\ r.status = jobs[j].err ]_vars

\* C13 witness: a job was reported "Task completed!" with its session id
\* after its ingestion had built the session's index.
C13_Witness ==
    \E j \in DOMAIN reports :
        /\ reports[j].status = COMPLETED
        /\ reports[j].result = jobs[j].sid
        /\ PersistDir(jobs[j].sid) \in DOMAIN index
        /\ index[PersistDir(jobs[j].sid)] # << >>

\* C14: a job in which an exception was raised ends failed with that
\* exception as its error detail, and its upload was answered 202.
C14_FailureKeepsException ==
    \A j \in DOMAIN jobs :
        (jobs[j].pc = "done" /\ jobs[j].raised # "none") =>
            /\ jobs[j].state = "FAILURE"
            /\ jobs[j].err = jobs[j].raised
            /\ uploads[jobs[j].up].code = 202

\* C15: a chat request whose get_answer raised is answered 500 with the
\* fixed error text, never 200 with an answer, and once it has failed the
\* request takes no further step (the call is not retried).
C15_ChatFailureAnswers500 ==
    [][ \A c \in DOMAIN chats' :
          /\ chats'[c].pc \in {"failed", "save_failed"} =>
                chats'[c].code = 500 /\ chats'[c].result = CHAT_ERROR
          /\ (c \in DOMAIN chats /\ chats[c].pc \in {"failed", "save_failed"})
                => chats'[c] = chats[c] ]_vars

\* C15 witness: the model call of a request raised and the request was
\* answered, while another request went on to be answered after it.
C15_Witness ==
    \E c, d \in DOMAIN chats :
        /\ c < d
        /\ chats[c].pc = "failed"
        /\ chats[c].llm
        /\ chats[d].pc = "done"

\* C16: an upload without a file part is answered 400 "No file part"; else
\* without a session id 400 "Session ID missing"; else with an empty
\* filename 400 "No selected file"; a rejected upload saves no file and
\* enqueues no job.
C16_UploadRejectedInOrder ==
    [][ Len(uploads') > Len(uploads) =>
          LET r == uploads'[Len(uploads')] IN
          /\ ~r.hasFile => r.code = 400 /\ r.msg = "No file part"
          /\ (r.hasFile /\ r.sid = NoSession) =>
                r.code = 400 /\ r.msg = "Session ID missing"
          /\ (r.hasFile /\ r.sid # NoSession /\ r.fname = NoFilename) =>
                r.code = 400 /\ r.msg = "No selected file"
          /\ r.code = 400 => files' = files /\ jobs' = jobs ]_vars

\* C16 witness: a request that fails all three checks was rejected after an
\* accepted upload had saved a file.
C16_Witness ==
    \E u \in DOMAIN uploads :
        /\ uploads[u].code = 400
        /\ ~uploads[u].hasFile
        /\ uploads[u].sid = NoSession
        /\ uploads[u].fname = NoFilename
        /\ DOMAIN files # {}

\* C17: a chat request with an empty body, without a message or without a
\* session id is answered 400; get_answer is not called: no model call, no
\* message written, and the step changes no history and no index; the
\* request takes no further step.
C17_InvalidChatRejected ==
    [][ \A c \in DOMAIN chats' :
          LET ch == chats'[c] IN
          (~ch.body \/ ~ch.msg \/ ch.sid = NoSession) =>
              /\ ch.code = 400
              /\ ch.pc = "rejected"
              /\ ~ch.llm
              /\ ch.wrote = 0
              /\ c \notin DOMAIN chats =>
                    history' = history /\ dirs' = dirs /\ index' = index
              /\ c \in DOMAIN chats => ch = chats[c] ]_vars

\* C17 witness: a request with an empty body was rejected while a session
\* has an index and a recorded turn.
C17_Witness ==
    \E c \in DOMAIN chats :
        /\ chats[c].pc = "rejected"
        /\ ~chats[c].body
        /\ \E s \in SessionIds : hasDocument(s) /\ Len(history[s]) = 2

\* C18: a get_answer that succeeds leaves the history it read followed by
\* exactly its own question and answer: the answer is appended right after
\* the question, everything before is unchanged, and a call that read an
\* empty history leaves one turn.
C18_HistoryAppendOnly ==
    [][ \A c \in DOMAIN chats :
          (chats[c].pc # "done" /\ chats'[c].pc = "done") =>
              LET h == history[chats[c].sid]
                  g == history'[chats[c].sid]
              IN /\ Len(g) = Len(h) + 1
                 /\ SubSeq(g, 1, Len(h)) = h
                 /\ g[Len(g)] = [type |-> "ai", req |-> c]
                 /\ Len(h) >= 1
                 /\ h[Len(h)] = [type |-> "human", req |-> c]
                 /\ Len(g) = chats[c].seen + 2 ]_vars

\* C19: the number of recorded messages a get_answer reads into the prompt
\* never exceeds a fixed limit of PromptTurnLimit turns.
C19_PromptHistoryBounded ==
    \A c \in DOMAIN chats : chats[c].seen <= 2 * PromptTurnLimit

\* C20: a request whose model response was empty is not answered with the
\* empty text as an ordinary answer, nor with the error of a failure.
C20_EmptyResponseDistinct ==
    \A c \in DOMAIN chats :
        (chats[c].pc = "done" /\ chats[c].reply = "empty") =>
            /\ chats[c].result # EMPTY_TEXT
            /\ chats[c].result # ANSWER_TEXT
            /\ chats[c].result # CHAT_ERROR

\* C21: while clear_session is not called, a step of a chat request, of a
\* status query or of the expiry of a history (any step that is not a
\* job's) removes no persist directory and leaves every existing
\* collection as it was.
C21_IndexPersists ==
    [][ (jobs' = jobs /\ clears' = clears) =>
          /\ dirs \subseteq dirs'
          /\ \A d \in DOMAIN index :
                d \in DOMAIN index' /\ index'[d] = index[d] ]_vars

\* C21 witness: a session has chunks in its index after a get_answer on it
\* succeeded, its history expired and its job was queried.
C21_Witness ==
    \E c \in DOMAIN chats :
        /\ chats[c].pc = "done"
        /\ history[chats[c].sid] = << >>
        /\ PersistDir(chats[c].sid) \in DOMAIN index
        /\ index[PersistDir(chats[c].sid)] # << >>
        /\ clears = << >>
        /\ reports # << >>

\* C22: every get_answer request that has passed the index check eventually
\* ends, done with an answer or failed with an error.
C22_RequestsEnd ==
    \A c \in 1..MaxSessionChats :
        [](c \in DOMAIN chats /\ chats[c].pc \in {"open", "invoke"}
             => <>(/\ c \in DOMAIN chats
                   /\ chats[c].pc \in {"done", "failed", "save_failed"}))

\* The components of a path string as written.
Components(p) == LET cs == SplitPath(p, << >>, << >>) IN { cs[i] : i \in DOMAIN cs }

\* C23: for every accepted upload the job was handed the path the file was
\* saved to, and that path has no ".." component and lies inside the upload
\* folder.
C23_UploadPathInsideFolder ==
    \A u \in DOMAIN uploads :
        uploads[u].code = 202 =>
            LET p == UploadPathString(uploads[u].sid, uploads[u].fname) IN
            /\ uploads[u].saved
            /\ jobs[uploads[u].task].path = Resolve(p)
            /\ <<".", ".">> \notin Components(p)
            /\ IsPrefix(Resolve(UPLOAD_FOLDER), Resolve(p))
            /\ Resolve(p) # Resolve(UPLOAD_FOLDER)

\* C24: once an upload request whose file was saved has answered 500, the
\* file it saved is no longer in the upload folder.
C24_FailedEnqueueLeavesNoFile ==
    \A u \in DOMAIN uploads :
        (uploads[u].code = 500 /\ uploads[u].saved) =>
            LET path == UploadPath(uploads[u].sid, uploads[u].fname) IN
            ~(path \in DOMAIN files /\ files[path].up = u)

\* C25: at the step in which a job's state becomes SUCCESS, the job has
\* loaded its file, split it into at least one chunk and handed the chunks
\* to the index (it is past add_texts), the path of the source file is gone
\* from the upload folder, and the result names the job's session id; as
\* long as no clear_session was called, the session's index holds chunks of
\* that document.
C25_SuccessAfterAllSteps ==
    [][ \A j \in DOMAIN jobs :
          (jobs[j].state # "SUCCESS" /\ jobs'[j].state = "SUCCESS") =>
              LET d == PersistDir(jobs[j].sid) IN
              /\ jobs[j].loaded
              /\ jobs[j].doc >= 1
              /\ jobs[j].pc \in {"cleanup", "remove"}
              /\ clears' = << >> =>
                    /\ d \in DOMAIN index'
                    /\ \E i \in DOMAIN index'[d] :
                          /\ index'[d][i].sid = jobs[j].sid
                          /\ index'[d][i].doc = jobs[j].doc
              /\ jobs[j].path \notin DOMAIN files'
              /\ StatusResponse(jobs'[j]).status = COMPLETED
              /\ StatusResponse(jobs'[j]).result = jobs[j].sid ]_vars

\* C25 witness: two jobs on the same path have both succeeded, one of them
\* after the other had already removed the file, and their chunks are in
\* the session's index.
C25_Witness ==
    \E j, k \in DOMAIN jobs :
        /\ j # k
        /\ jobs[j].path = jobs[k].path
        /\ jobs[j].state = "SUCCESS"
        /\ jobs[k].state = "SUCCESS"
        /\ PersistDir(jobs[j].sid) \in DOMAIN index
        /\ index[PersistDir(jobs[j].sid)] # << >>

\* C26: every enqueued job eventually reaches a terminal state (SUCCESS or
\* FAILURE), also when the worker executing it stops part-way.
C26_JobsTerminate ==
    \A j \in 1..MaxSessionUploads :
        [](j \in DOMAIN jobs => <>(j \in DOMAIN jobs /\ Terminal(j)))

\* C27: when two uploads carry the same session id and the same filename,
\* each job loads the content of its own upload: at the step in which such
\* a job loads its file, the file is at the path and is the one its own
\* upload saved (not removed by the other job, not overwritten by the other
\* upload).
C27_SameNameUploadsIndependent ==
    [][ \A j \in DOMAIN jobs :
            ( /\ \E k \in DOMAIN jobs : /\ k # j
                                        /\ jobs[k].sid = jobs[j].sid
                                        /\ jobs[k].path = jobs[j].path
              /\ jobs[j].pc = "queued"
              /\ jobs'[j].pc # "queued" )
            => SourceFileExists(j) ]_vars

\* C28: a failed job leaves the session's index as it was before the job.
\* When every job that has started on a persist directory has failed, the
\* directory was never built by a successful job, so it must be as it was
\* initially: absent, with no collection in it.
C28_FailedJobLeavesIndexUntouched ==
    \A j \in DOMAIN jobs :
        ( /\ jobs[j].state = "FAILURE"
          /\ \A k \in DOMAIN jobs :
                PersistDir(jobs[k].sid) = PersistDir(jobs[j].sid)
                    => jobs[k].pc = "queued" \/ jobs[k].state = "FAILURE" )
        => /\ PersistDir(jobs[j].sid) \notin DOMAIN index
           /\ ~hasDocument(jobs[j].sid)

\* C29: clear_session is all-or-nothing. After a clear_session call that
\* raised, the session is never left with its index deleted by that call
\* while its history is still stored.
C29_ClearAllOrNothing ==
    \A k \in DOMAIN clears :
        ( /\ clears[k].pc = "raised"
          /\ clears[k].removed
          /\ history[clears[k].sid] # << >> )
        => hasDocument(clears[k].sid)

\* C30: once clear_session(s) has returned and no upload for s follows,
\* the session has no document and no stored history, also when an
\* ingestion job or a get_answer for s was in progress during the call.
C30_ClearedStaysCleared ==
    \A k \in DOMAIN clears :
        clears[k].pc = "done" =>
            /\ ~hasDocument(clears[k].sid)
            /\ history[clears[k].sid] = << >>

====
